---- MODULE Spec2Model ----
(***************************************************************************)
(* Model of the forecasting pipeline of the AQI dashboard                  *)
(* (src/app.py, show_future) together with the reading store it queries   *)
(* and the model artifact it loads.                                        *)
(*                                                                         *)
(* Numbers.  AQI values, bucket means, interpolated values and model       *)
(* outputs are Python/numpy floats in the source.  They are modelled as    *)
(* exact rationals [n |-> numerator, d |-> denominator] in lowest terms,   *)
(* so a mean of three readings is a third and rounding to one decimal is   *)
(* a real operation.  Binary floating-point rounding error (a few ulp) is  *)
(* not modelled.                                                           *)
(*                                                                         *)
(* Time.  Timestamps are whole minutes.  The store holds UTC minutes of    *)
(* the day; the pipeline converts them to Asia/Kolkata minutes.            *)
(*                                                                         *)
(* Tables.  get_combined_data returns the rows of realtime_data followed   *)
(* by those of sensor_data whenever the former has fewer than 1000 rows;   *)
(* store is that concatenation.  Only the created_at and aqi columns are   *)
(* kept: temperature and humidity are averaged by the resample but never   *)
(* reach the features or the forecast.                                     *)
(***************************************************************************)
EXTENDS Integers, Sequences, FiniteSets, TLC

(***************************************************************************)
(* Bounds of the model.                                                    *)
(***************************************************************************)
MaxRows == 4

(***************************************************************************)
(* Constants of the program.                                               *)
(***************************************************************************)
TzOffset == 330
GapMinutes == 120
Freq == 10
MinRows == 4
Horizon == 6

(***************************************************************************)
(* Exact rational arithmetic standing for float arithmetic.                *)
(***************************************************************************)
Abs(i) == IF i < 0 THEN 0 - i ELSE i

RECURSIVE GCD(_, _)
GCD(a, b) == IF b = 0 THEN a ELSE GCD(b, a % b)

Norm(n, d) ==
    LET g == GCD(Abs(n), d)
    IN  [n |-> n \div g, d |-> d \div g]

R(i) == [n |-> i, d |-> 1]

RAdd(x, y) == Norm(x.n * y.d + y.n * x.d, x.d * y.d)

RSub(x, y) == Norm(x.n * y.d - y.n * x.d, x.d * y.d)

RMulI(x, k) == Norm(x.n * k, x.d)

RDivI(x, k) == Norm(x.n, x.d * k)

RLess(x, y) == x.n * y.d < y.n * x.d

RLeq(x, y) == x.n * y.d <= y.n * x.d

\* round(x, 1) on a numpy float: x*10, round half to even, /10
Round1(x) ==
    LET q == x.n * 10
        f == q \div x.d
        rem == q - f * x.d
        up == IF 2 * rem > x.d THEN TRUE
              ELSE IF 2 * rem < x.d THEN FALSE
              ELSE f % 2 = 1
    IN  Norm(IF up THEN f + 1 ELSE f, 10)

(***************************************************************************)
(* Values that may be missing: <<>> is NaT / NaN, <<v>> is the value v.    *)
(***************************************************************************)
NA == <<>>

IsNA(x) == x = <<>>

(***************************************************************************)
(* The reading store.  A stored row carries the timestamp text and the     *)
(* aqi field as the database returns them: a timestamp is an ISO text      *)
(* naming a UTC minute or something unparsable, an aqi is a number or      *)
(* null.  Readings lists the readings a store is filled from, in the order *)
(* of their ids.                                                           *)
(***************************************************************************)
Iso(m) == [k |-> "iso", v |-> m]

JunkTs == [k |-> "junk", v |-> 0]

Num(i) == [k |-> "num", v |-> R(i)]

Null == [k |-> "null", v |-> R(0)]

Row(ts, a) == [created_at |-> ts, aqi |-> a]

\* local (Asia/Kolkata) minute of the day -> stored UTC minute
Utc(local) == local - TzOffset

Readings ==
    << Row(Iso(Utc(400)), Num(25)),
       Row(Iso(Utc(493)), Num(20)),
       Row(Iso(Utc(540)), Num(35)),
       Row(Iso(Utc(575)), Num(36)),
       Row(Iso(Utc(595)), Num(38)),
       Row(Iso(Utc(600)), Num(40)),
       Row(JunkTs, Num(40)),
       Row(Iso(Utc(605)), Num(44)),
       Row(Iso(Utc(600)), Null),
       Row(Iso(Utc(610)), Num(50)),
       Row(Iso(Utc(615)), Num(52)),
       Row(Iso(Utc(612)), Num(55)),
       Row(Iso(Utc(615)), Num(0 - 5)) >>

\* wall-clock instants (UTC minutes) at which the button may be pressed:
\* 10:20 and 14:00 local time; every reading above is older than both
Clock == {Utc(620), Utc(840)}

(***************************************************************************)
(* pandas operations used by show_future.                                  *)
(***************************************************************************)
\* pd.to_datetime(col, utc=True, errors='coerce')
ToDatetime(f) == IF f.k = "iso" THEN <<f.v>> ELSE NA

\* .dt.tz_convert("Asia/Kolkata")
TzConvert(t) == IF IsNA(t) THEN NA ELSE <<t[1] + TzOffset>>

\* pd.to_numeric(col, errors='coerce')
ToNumeric(f) == IF f.k = "num" THEN <<f.v>> ELSE NA

Coerce(rows) ==
    [i \in 1..Len(rows) |->
        [t |-> TzConvert(ToDatetime(rows[i].created_at)),
         aqi |-> ToNumeric(rows[i].aqi)]]

\* insert row r after the rows of the sorted frame s that are not later
RECURSIVE InsertSorted(_, _)
InsertSorted(s, r) ==
    IF s = <<>> THEN <<r>>
    ELSE IF r.t[1] < Head(s).t[1] THEN <<r>> \o s
    ELSE <<Head(s)>> \o InsertSorted(Tail(s), r)

RECURSIVE SortTimed(_)
SortTimed(df) ==
    IF df = <<>> THEN <<>>
    ELSE InsertSorted(SortTimed(SubSeq(df, 1, Len(df) - 1)), df[Len(df)])

\* df.sort_values(t_col): ascending, NaT last, equal timestamps keep the
\* order of the frame (true of the sort for frames this short)
SortValues(df) ==
    SortTimed(SelectSeq(df, LAMBDA r : ~IsNA(r.t)))
        \o SelectSeq(df, LAMBDA r : IsNA(r.t))

\* .dropna(subset=[t_col, 'aqi'])
DropNa(df) == SelectSeq(df, LAMBDA r : ~IsNA(r.t) /\ ~IsNA(r.aqi))

\* .drop_duplicates(subset=[t_col]): the first row of each timestamp stays
RECURSIVE DropDuplicates(_)
DropDuplicates(df) ==
    IF df = <<>> THEN <<>>
    ELSE LET init == DropDuplicates(SubSeq(df, 1, Len(df) - 1))
             r == df[Len(df)]
         IN  IF \E i \in 1..Len(init) : init[i].t = r.t
             THEN init ELSE Append(init, r)

\* df[t_col].max(); NaT for an empty column
RECURSIVE MaxT(_)
MaxT(df) ==
    IF df = <<>> THEN NA
    ELSE LET m == MaxT(Tail(df))
         IN  IF IsNA(m) \/ Head(df).t[1] > m[1] THEN Head(df).t ELSE m

RECURSIVE MinT(_)
MinT(df) ==
    IF df = <<>> THEN NA
    ELSE LET m == MinT(Tail(df))
         IN  IF IsNA(m) \/ Head(df).t[1] < m[1] THEN Head(df).t ELSE m

\* df[t_col].max() - timedelta(hours=2)
CutoffTime(df) ==
    IF IsNA(MaxT(df)) THEN NA ELSE <<MaxT(df)[1] - GapMinutes>>

\* df[df[t_col] > cutoff_time]; a comparison with NaT is False
MutGapFilter(df, cutoff) == df

GapFilter(df, cutoff) ==
    SelectSeq(df, LAMBDA r : ~IsNA(cutoff) /\ r.t[1] > cutoff[1])

\* the 10-minute bucket a timestamp falls in (buckets start at midnight)
Bucket(t) == (t \div Freq) * Freq

RECURSIVE SumAqi(_)
SumAqi(df) == IF df = <<>> THEN R(0) ELSE RAdd(Head(df).aqi[1], SumAqi(Tail(df)))

\* mean of the readings of one bucket; NaN for a bucket without readings
BucketMean(df, b) ==
    LET in == SelectSeq(df, LAMBDA r : Bucket(r.t[1]) = b)
    IN  IF in = <<>> THEN NA ELSE <<RDivI(SumAqi(in), Len(in))>>

\* df.resample('10T').mean(): one row per bucket from the first reading's
\* bucket to the last reading's bucket, empty buckets included
MutResampleMean(df) ==
    IF df = <<>> THEN <<>>
    ELSE LET first == Bucket(MinT(df)[1])
             n == (Bucket(MaxT(df)[1]) - first) \div Freq + 1
             all == [i \in 1..n |->
                       [t |-> first + (i - 1) * Freq,
                        aqi |-> BucketMean(df, first + (i - 1) * Freq)]]
         IN  SelectSeq(all, LAMBDA r : ~IsNA(r.aqi))

ResampleMean(df) ==
    IF df = <<>> THEN <<>>
    ELSE LET first == Bucket(MinT(df)[1])
             n == (Bucket(MaxT(df)[1]) - first) \div Freq + 1
         IN  [i \in 1..n |->
                [t |-> first + (i - 1) * Freq,
                 aqi |-> BucketMean(df, first + (i - 1) * Freq)]]

\* .interpolate(): linear over the row positions; a NaN after the last
\* valid row repeats it, a NaN before the first valid row stays NaN
Interpolate(g) ==
    [i \in 1..Len(g) |->
        IF ~IsNA(g[i].aqi) THEN g[i]
        ELSE LET before == {j \in 1..(i - 1) : ~IsNA(g[j].aqi)}
                 after == {j \in (i + 1)..Len(g) : ~IsNA(g[j].aqi)}
             IN  IF before = {} THEN g[i]
                 ELSE LET p == CHOOSE j \in before : \A j2 \in before : j2 <= j
                      IN  IF after = {} THEN [g[i] EXCEPT !.aqi = g[p].aqi]
                          ELSE LET q == CHOOSE j \in after : \A j2 \in after : j <= j2
                                   vp == g[p].aqi[1]
                                   vq == g[q].aqi[1]
                               IN  [g[i] EXCEPT !.aqi =
                                      <<RAdd(vp, RDivI(RMulI(RSub(vq, vp), i - p), q - p))>>]]

(***************************************************************************)
(* The model artifact.  The file is absent, unreadable, or holds a suite:  *)
(* a dictionary from horizon to regressor.  A regressor is an arbitrary    *)
(* deterministic function of its input row; the suites below sample        *)
(* linear ones, raw = w * aqi_lag_1 + c[step], some with a horizon         *)
(* missing from the dictionary or a regressor whose predict raises.        *)
(***************************************************************************)
SuiteNames == {"persist", "const", "noH4", "noH1", "fail3"}

Artifacts == {"missing", "corrupt"} \cup SuiteNames

Suite(name) ==
    [keys |-> CASE name = "noH4" -> (1..Horizon) \ {4}
                [] name = "noH1" -> (1..Horizon) \ {1}
                [] OTHER -> 1..Horizon,
     raises |-> IF name = "fail3" THEN {3} ELSE {},
     w |-> IF name = "persist" THEN 1 ELSE 0,
     c |-> IF name = "persist"
           THEN <<R(0), R(2), R(0 - 3), Norm(1, 2), R(0 - 80), R(4)>>
           ELSE <<R(75), R(80), R(70), R(10), R(0), R(120)>>]

\* model_suite[step].predict(input)[0]
Predict(name, step, input) ==
    RAdd(RMulI(input.aqi_lag_1, Suite(name).w), Suite(name).c[step])

(***************************************************************************)
(* Feature construction, lines 301-312.                                    *)
(***************************************************************************)
Val(g, i) == g[i].aqi[1]

lag_1(g) == Val(g, Len(g))

Mutlag_2(g) == IF Len(g) > 2 THEN Val(g, Len(g) - 1) ELSE lag_1(g)

lag_2(g) == IF Len(g) > 1 THEN Val(g, Len(g) - 1) ELSE lag_1(g)

lag_3(g) == IF Len(g) > 2 THEN Val(g, Len(g) - 2) ELSE lag_2(g)

Mutlag_6(g) == IF Len(g) > 5 THEN Val(g, Len(g) - 5) ELSE R(0)

lag_6(g) == IF Len(g) > 5 THEN Val(g, Len(g) - 5) ELSE lag_3(g)

\* df_10min.iloc[-3:].mean()['aqi']
rolling_mean(g) ==
    LET tail == SubSeq(g, IF Len(g) > 3 THEN Len(g) - 2 ELSE 1, Len(g))
    IN  RDivI(SumAqi(tail), Len(tail))

InputFeatures(g) ==
    [aqi_lag_1 |-> lag_1(g),
     aqi_lag_2 |-> lag_2(g),
     aqi_lag_3 |-> lag_3(g),
     aqi_lag_6 |-> lag_6(g),
     rolling_mean |-> rolling_mean(g)]

NoFeatures ==
    [aqi_lag_1 |-> R(0), aqi_lag_2 |-> R(0), aqi_lag_3 |-> R(0),
     aqi_lag_6 |-> R(0), rolling_mean |-> R(0)]

\* the one-row frame handed to predict
ModelInput(t, f) ==
    [hour |-> (t \div 60) % 24,
     minute |-> t % 60,
     aqi_lag_1 |-> f.aqi_lag_1,
     aqi_lag_2 |-> f.aqi_lag_2,
     aqi_lag_3 |-> f.aqi_lag_3,
     aqi_lag_6 |-> f.aqi_lag_6,
     rolling_mean |-> f.rolling_mean]

\* future_time.strftime("%H:%M")
Strftime(t) == [H |-> (t \div 60) % 24, M |-> t % 60]

\* if corrected_pred < 0: corrected_pred = 0
MutClamp(x) == x

Clamp(x) == IF RLess(x, R(0)) THEN R(0) ELSE x

\* 40 - len(df_10min)*10
MutWaitMinutes(n) == 30 - n * 10

WaitMinutes(n) == 40 - n * 10

\* get_combined_data: newest id first
RECURSIVE Reverse(_)
Reverse(s) == IF s = <<>> THEN <<>> ELSE Append(Reverse(Tail(s)), Head(s))

(***************************************************************************)
(* State.                                                                  *)
(*   store, next_id   the reading table and the id of its next row         *)
(*   artifact         what aqi_six_models.joblib holds                     *)
(*   now              the wall clock (the pipeline never reads it)         *)
(*   pc               position inside show_future                          *)
(*   the locals of show_future, named as in the source                     *)
(*   message, wait    what st.error / st.warning showed                    *)
(*   shown            the forecast table handed to st.dataframe            *)
(*   raised           the exception that left show_future, or "none"       *)
(***************************************************************************)
VARIABLES store, next_id, artifact, now, pc, model_suite, rows, df,
          cutoff_time, df_10min, last_time, current_aqi_real,
          input_features, raw_pred_t1, bias_offset, step, preds,
          message, wait, shown, raised

(***************************************************************************)
(* State of the device firmware (src/devices/main.py).                     *)
(*   sum_mq135 .. sample_count, last_hourly_upload   the module globals    *)
(*   clock            what time() returns, in seconds since the boot       *)
(*   fpc              position inside the body of the main loop            *)
(*   raw_air, temp, hum, aqi   the sample of the current iteration         *)
(*   hour_samples     history: the samples accumulated since the reset     *)
(*   history          the rows the history table accepted                  *)
(*   hist_status      outcome of the last history POST                     *)
(*   iterations       number of loop iterations begun                      *)
(***************************************************************************)
VARIABLES sum_mq135, sum_temp, sum_hum, sum_aqi, sample_count,
          last_hourly_upload, clock, fpc, raw_air, temp, hum, aqi,
          hour_samples, history, hist_status, iterations

accumulators == <<sum_mq135, sum_temp, sum_hum, sum_aqi, sample_count>>

sample == <<raw_air, temp, hum, aqi>>

fw == <<accumulators, last_hourly_upload, clock, fpc, sample,
        hour_samples, history, hist_status, iterations>>

\* lines 76-83, and the loop about to begin
FwStart ==
    /\ sum_mq135 = 0
    /\ sum_temp = R(0)
    /\ sum_hum = R(0)
    /\ sum_aqi = 0
    /\ sample_count = 0
    /\ clock = 0
    /\ last_hourly_upload = 0
    /\ fpc = "read"
    /\ raw_air = 0
    /\ temp = R(0)
    /\ hum = R(0)
    /\ aqi = 0
    /\ hour_samples = <<>>
    /\ history = <<>>
    /\ hist_status = "none"
    /\ iterations = 0

env == <<store, next_id, artifact, now>>

locals == <<model_suite, rows, df, cutoff_time, df_10min, last_time,
            current_aqi_real, input_features, raw_pred_t1, bias_offset,
            step, preds>>

output == <<message, wait, shown, raised>>

vars == <<env, pc, locals, output, fw>>

Fresh ==
    /\ model_suite = "none"
    /\ rows = <<>>
    /\ df = <<>>
    /\ cutoff_time = NA
    /\ df_10min = <<>>
    /\ last_time = 0
    /\ current_aqi_real = R(0)
    /\ input_features = NoFeatures
    /\ raw_pred_t1 = R(0)
    /\ bias_offset = R(0)
    /\ step = 0
    /\ preds = <<>>
    /\ message = "none"
    /\ wait = 0
    /\ shown = <<>>
    /\ raised = "none"

Init ==
    /\ store = <<>>
    /\ next_id = 1
    /\ artifact = "missing"
    /\ now = Utc(620)
    /\ pc = "idle"
    /\ Fresh
    /\ FwStart

(***************************************************************************)
(* The environment: the device posts a reading, somebody replaces the      *)
(* model file, time passes.                                                *)
(***************************************************************************)
InsertReading(i) ==
    /\ pc = "idle"
    /\ Len(store) < MaxRows
    /\ i >= next_id
    /\ store' = Append(store, Readings[i])
    /\ next_id' = i + 1
    /\ UNCHANGED <<fw, artifact, now, pc, locals, output>>

UploadArtifact(a) ==
    /\ pc = "idle"
    /\ a # artifact
    /\ artifact' = a
    /\ UNCHANGED <<fw, store, next_id, now, pc, locals, output>>

Tick(t) ==
    /\ pc = "idle"
    /\ t > now
    /\ now' = t
    /\ UNCHANGED <<fw, store, next_id, artifact, pc, locals, output>>

(***************************************************************************)
(* show_future, one action per stage.                                      *)
(***************************************************************************)
\* line 245: the button is pressed
RunPrediction ==
    /\ pc = "idle"
    /\ pc' = "load"
    /\ UNCHANGED <<fw, env, locals, output>>

\* lines 250-251: joblib.load succeeds
LoadModels ==
    /\ pc = "load"
    /\ artifact \in SuiteNames
    /\ model_suite' = artifact
    /\ pc' = "fetch"
    /\ UNCHANGED <<fw, env, rows, df, cutoff_time, df_10min, last_time,
                   current_aqi_real, input_features, raw_pred_t1,
                   bias_offset, step, preds, output>>

\* lines 252-254: FileNotFoundError is caught, st.error, return
LoadNotFound ==
    /\ pc = "load"
    /\ artifact = "missing"
    /\ message' = "ModelUnavailable"
    /\ pc' = "done"
    /\ UNCHANGED <<fw, env, locals, wait, shown, raised>>

\* line 251: any other exception of joblib.load is not caught
LoadRaises ==
    /\ pc = "load"
    /\ artifact = "corrupt"
    /\ raised' = "LoadError"
    /\ pc' = "done"
    /\ UNCHANGED <<fw, env, locals, message, wait, shown>>

\* line 257 and get_combined_data: the rows of the table, newest id first
GetRows ==
    /\ pc = "fetch"
    /\ store # <<>>
    /\ rows' = Reverse(store)
    /\ pc' = "process"
    /\ UNCHANGED <<fw, env, model_suite, df, cutoff_time, df_10min, last_time,
                   current_aqi_real, input_features, raw_pred_t1,
                   bias_offset, step, preds, output>>

\* lines 257-258: the table is empty or the query failed (get_combined_data
\* turns every exception into []); st.warning("Collecting data..."), return
GetNoRows ==
    /\ pc = "fetch"
    /\ message' = "DataUnavailable"
    /\ pc' = "done"
    /\ UNCHANGED <<fw, env, locals, wait, shown, raised>>

\* lines 261-275: coerce, sort, drop incomplete rows, drop duplicates
Cleaned(rs) == DropDuplicates(DropNa(SortValues(Coerce(rs))))

CleanData ==
    /\ pc = "process"
    /\ df' = Cleaned(rows)
    /\ pc' = "gap"
    /\ UNCHANGED <<fw, env, model_suite, rows, cutoff_time, df_10min, last_time,
                   current_aqi_real, input_features, raw_pred_t1,
                   bias_offset, step, preds, output>>

\* lines 281-284
GapDetection ==
    /\ pc = "gap"
    /\ cutoff_time' = CutoffTime(df)
    /\ df' = GapFilter(df, CutoffTime(df))
    /\ pc' = "resample"
    /\ UNCHANGED <<fw, env, model_suite, rows, df_10min, last_time,
                   current_aqi_real, input_features, raw_pred_t1,
                   bias_offset, step, preds, output>>

\* line 287
Resample ==
    /\ pc = "resample"
    /\ df_10min' = Interpolate(ResampleMean(df))
    /\ pc' = "check"
    /\ UNCHANGED <<fw, env, model_suite, rows, df, cutoff_time, last_time,
                   current_aqi_real, input_features, raw_pred_t1,
                   bias_offset, step, preds, output>>

\* lines 290-292
ColdStart ==
    /\ pc = "check"
    /\ Len(df_10min) < MinRows
    /\ message' = "ColdStart"
    /\ wait' = WaitMinutes(Len(df_10min))
    /\ pc' = "done"
    /\ UNCHANGED <<fw, env, locals, shown, raised>>

\* lines 295-312
BuildFeatures ==
    /\ pc = "check"
    /\ ~(Len(df_10min) < MinRows)
    /\ last_time' = df_10min[Len(df_10min)].t
    /\ current_aqi_real' = Val(df_10min, Len(df_10min))
    /\ input_features' = InputFeatures(df_10min)
    /\ pc' = "bias"
    /\ UNCHANGED <<fw, env, model_suite, rows, df, cutoff_time, df_10min,
                   raw_pred_t1, bias_offset, step, preds, output>>

\* line 333: the anchoring offset
MutOffset(cur, raw) == RSub(raw, cur)

Offset(cur, raw) == RSub(cur, raw)

\* model_suite[h] exists and its predict returns
Usable(h) ==
    /\ h \in Suite(model_suite).keys
    /\ h \notin Suite(model_suite).raises

\* lines 319-333
BiasOffset ==
    /\ pc = "bias"
    /\ Usable(1)
    /\ LET raw == Predict(model_suite, 1,
                          ModelInput(last_time + 10, input_features))
       IN  /\ raw_pred_t1' = raw
           /\ bias_offset' = Offset(current_aqi_real, raw)
    /\ step' = 1
    /\ pc' = "loop"
    /\ UNCHANGED <<fw, env, model_suite, rows, df, cutoff_time, df_10min,
                   last_time, current_aqi_real, input_features, preds,
                   output>>

\* line 328: KeyError of model_suite[1] or an exception of predict
BiasRaises ==
    /\ pc = "bias"
    /\ ~Usable(1)
    /\ raised' = IF 1 \in Suite(model_suite).keys
                 THEN "PredictError" ELSE "KeyError"
    /\ pc' = "done"
    /\ UNCHANGED <<fw, env, locals, message, wait, shown>>

\* lines 339-362: one pass of the loop body
ForecastPoint(s) ==
    LET future_time == last_time + 10 * s
        raw_pred == Predict(model_suite, s,
                            ModelInput(future_time, input_features))
        corrected_pred == Clamp(RAdd(raw_pred, bias_offset))
    IN  [Time |-> Strftime(future_time),
         ForecastAQI |-> Round1(corrected_pred)]

PredictStep ==
    /\ pc = "loop"
    /\ step <= Horizon
    /\ Usable(step)
    /\ preds' = Append(preds, ForecastPoint(step))
    /\ step' = step + 1
    /\ UNCHANGED <<fw, env, pc, model_suite, rows, df, cutoff_time, df_10min,
                   last_time, current_aqi_real, input_features,
                   raw_pred_t1, bias_offset, output>>

\* lines 351-352: KeyError of model_suite[step] or an exception of predict
MutPredictRaises ==
    /\ pc = "loop"
    /\ step <= Horizon
    /\ ~Usable(step)
    /\ shown' = preds
    /\ message' = "Forecast"
    /\ pc' = "done"
    /\ UNCHANGED <<fw, env, locals, wait, raised>>

PredictRaises ==
    /\ pc = "loop"
    /\ step <= Horizon
    /\ ~Usable(step)
    /\ raised' = IF step \in Suite(model_suite).keys
                 THEN "PredictError" ELSE "KeyError"
    /\ pc' = "done"
    /\ UNCHANGED <<fw, env, locals, message, wait, shown>>

\* lines 365-390: the table and the chart are drawn
Display ==
    /\ pc = "loop"
    /\ step > Horizon
    /\ shown' = preds
    /\ message' = "Forecast"
    /\ pc' = "done"
    /\ UNCHANGED <<fw, env, locals, wait, raised>>

\* the script is run again: the page and the locals are gone
Rerun ==
    /\ pc = "done"
    /\ pc' = "idle"
    /\ model_suite' = "none"
    /\ rows' = <<>>
    /\ df' = <<>>
    /\ cutoff_time' = NA
    /\ df_10min' = <<>>
    /\ last_time' = 0
    /\ current_aqi_real' = R(0)
    /\ input_features' = NoFeatures
    /\ raw_pred_t1' = R(0)
    /\ bias_offset' = R(0)
    /\ step' = 0
    /\ preds' = <<>>
    /\ message' = "none"
    /\ wait' = 0
    /\ shown' = <<>>
    /\ raised' = "none"
    /\ UNCHANGED <<fw, env>>

Next ==
    \/ \E i \in 1..Len(Readings) : InsertReading(i)
    \/ \E a \in Artifacts : UploadArtifact(a)
    \/ \E t \in Clock : Tick(t)
    \/ RunPrediction
    \/ LoadModels
    \/ LoadNotFound
    \/ LoadRaises
    \/ GetRows
    \/ GetNoRows
    \/ CleanData
    \/ GapDetection
    \/ Resample
    \/ ColdStart
    \/ BuildFeatures
    \/ BiasOffset
    \/ BiasRaises
    \/ PredictStep
    \/ PredictRaises
    \/ Display
    \/ Rerun

Spec == Init /\ [][Next]_vars

(***************************************************************************)
(* The device firmware, src/devices/main.py.                               *)
(***************************************************************************)
HOUR_INTERVAL == 3600

\* number of loop iterations followed
MaxIter == 4

\* readings of the MQ-135 converter
RawAirs == {500, 4095}

\* seconds a POST may block before it returns or raises
NetDelays == {0, 3598}

\* what a history POST may do: status 201, another status, an exception
PostOutcomes == {"201", "failed", "raised"}

RMul(x, y) == Norm(x.n * y.n, x.d * y.d)

\* round(x): to the nearest integer, a half to the even one
RoundInt(x) ==
    LET f == x.n \div x.d
        rem == x.n - f * x.d
        up == IF 2 * rem > x.d THEN TRUE
              ELSE IF 2 * rem < x.d THEN FALSE
              ELSE f % 2 = 1
    IN  IF up THEN f + 1 ELSE f

\* round(x, 2)
Round2(x) == Norm(RoundInt(RMulI(x, 100)), 100)

\* int(x) of a float that is not negative
Trunc(x) == x.n \div x.d

mq135_to_pm25(raw) == Norm(raw * 200, 4095)

calculate_aqi_pm25(pm25) ==
    IF RLeq(pm25, R(12)) THEN RoundInt(RMul(Norm(50, 12), pm25))
    ELSE IF RLeq(pm25, Norm(354, 10))
    THEN RoundInt(RAdd(RMul(Norm(490, 233), RSub(pm25, Norm(121, 10))), R(51)))
    ELSE IF RLeq(pm25, Norm(554, 10))
    THEN RoundInt(RAdd(RMul(Norm(490, 199), RSub(pm25, Norm(355, 10))), R(101)))
    ELSE 150

app == <<env, pc, locals, output>>

\* lines 92-94 and 173-175: the WiFi is down and connect_wifi raises; the
\* handler of the loop body sleeps 5 seconds
WifiError ==
    /\ fpc = "read"
    /\ iterations < MaxIter
    /\ iterations' = iterations + 1
    /\ clock' = clock + 5
    /\ UNCHANGED <<app, accumulators, last_hourly_upload, fpc, sample,
                   hour_samples, history, hist_status>>

\* lines 96-106: the DHT22 answers or raises OSError, the converter is read
Measure(dht_ok, raw) ==
    /\ fpc = "read"
    /\ iterations < MaxIter
    /\ iterations' = iterations + 1
    /\ temp' = IF dht_ok THEN Norm(51, 2) ELSE R(0)
    /\ hum' = IF dht_ok THEN R(60) ELSE R(0)
    /\ raw_air' = raw
    /\ aqi' = calculate_aqi_pm25(mq135_to_pm25(raw))
    /\ fpc' = "accumulate"
    /\ UNCHANGED <<app, accumulators, last_hourly_upload, clock,
                   hour_samples, history, hist_status>>

\* lines 109-113
Accumulate ==
    /\ fpc = "accumulate"
    /\ sum_mq135' = sum_mq135 + raw_air
    /\ sum_temp' = RAdd(sum_temp, temp)
    /\ sum_hum' = RAdd(sum_hum, hum)
    /\ sum_aqi' = sum_aqi + aqi
    /\ sample_count' = sample_count + 1
    /\ hour_samples' = Append(hour_samples,
                              [mq135 |-> raw_air, temperature |-> temp,
                               humidity |-> hum, aqi |-> aqi])
    /\ fpc' = "push"
    /\ UNCHANGED <<app, last_hourly_upload, clock, sample, history,
                   hist_status, iterations>>

\* lines 117-138: the realtime POST; its status and its exceptions are
\* only printed
PushLive(d) ==
    /\ fpc = "push"
    /\ clock' = clock + d
    /\ fpc' = "hourly"
    /\ UNCHANGED <<app, accumulators, last_hourly_upload, sample,
                   hour_samples, history, hist_status, iterations>>

\* lines 145-150
PayloadHistory ==
    [mq135 |-> Trunc(Norm(sum_mq135, sample_count)),
     temperature |-> Round2(RDivI(sum_temp, sample_count)),
     humidity |-> Round2(RDivI(sum_hum, sample_count)),
     aqi |-> Trunc(Norm(sum_aqi, sample_count))]

\* lines 141-168 with the hour elapsed: the history POST, then the reset
MutHourlyUpload(outcome, d) ==
    /\ fpc = "hourly"
    /\ clock - last_hourly_upload >= HOUR_INTERVAL
    /\ IF sample_count > 0
       THEN /\ hist_status' = outcome
            /\ history' = IF outcome = "201"
                          THEN Append(history, PayloadHistory) ELSE history
            /\ clock' = clock + d
       ELSE UNCHANGED <<hist_status, history, clock>>
    /\ IF sample_count > 0 /\ outcome # "201"
       THEN UNCHANGED <<accumulators, hour_samples>>
       ELSE /\ sum_mq135' = 0
            /\ sum_temp' = R(0)
            /\ sum_hum' = R(0)
            /\ sum_aqi' = 0
            /\ sample_count' = 0
            /\ hour_samples' = <<>>
    /\ last_hourly_upload' = clock'
    /\ fpc' = "sleep"
    /\ UNCHANGED <<app, sample, iterations>>

HourlyUpload(outcome, d) ==
    /\ fpc = "hourly"
    /\ clock - last_hourly_upload >= HOUR_INTERVAL
    /\ IF sample_count > 0
       THEN /\ hist_status' = outcome
            /\ history' = IF outcome = "201"
                          THEN Append(history, PayloadHistory) ELSE history
            /\ clock' = clock + d
       ELSE UNCHANGED <<hist_status, history, clock>>
    /\ sum_mq135' = 0
    /\ sum_temp' = R(0)
    /\ sum_hum' = R(0)
    /\ sum_aqi' = 0
    /\ sample_count' = 0
    /\ hour_samples' = <<>>
    /\ last_hourly_upload' = clock'
    /\ fpc' = "sleep"
    /\ UNCHANGED <<app, sample, iterations>>

\* lines 141-142 with less than the hour elapsed
HourlySkip ==
    /\ fpc = "hourly"
    /\ ~(clock - last_hourly_upload >= HOUR_INTERVAL)
    /\ fpc' = "sleep"
    /\ UNCHANGED <<app, accumulators, last_hourly_upload, clock, sample,
                   hour_samples, history, hist_status, iterations>>

\* lines 170-171
EndIteration ==
    /\ fpc = "sleep"
    /\ clock' = clock + 2
    /\ fpc' = "read"
    /\ UNCHANGED <<app, accumulators, last_hourly_upload, sample,
                   hour_samples, history, hist_status, iterations>>

FwNext ==
    \/ WifiError
    \/ \E dht_ok \in BOOLEAN, raw \in RawAirs : Measure(dht_ok, raw)
    \/ Accumulate
    \/ \E d \in NetDelays : PushLive(d)
    \/ \E outcome \in PostOutcomes, d \in NetDelays : HourlyUpload(outcome, d)
    \/ HourlySkip
    \/ EndIteration

FwSpec == Init /\ [][FwNext]_vars

(***************************************************************************)
(* Helpers of the properties.                                              *)
(***************************************************************************)
\* the grid df_10min of this run has been computed
Resampled == rows # <<>> /\ pc \in {"check", "bias", "loop", "done"}

\* the rows of this run that survive coercion, before the gap filter
Valid == Cleaned(rows)

IsTenth(x) == 10 % x.d = 0

(***************************************************************************)
(* C1: every forecast value that is shown is >= 0, whatever the raw model  *)
(* output and the bias offset were, negative corrected values included.    *)
(***************************************************************************)
C1_NonNegative ==
    \A k \in 1..Len(shown) : RLeq(R(0), shown[k].ForecastAQI)

\* a forecast is shown one of whose corrected values was negative
C1_Witness ==
    /\ pc = "done"
    /\ Len(shown) = Horizon
    /\ \E k \in 1..Horizon :
          RLess(RAdd(Predict(model_suite, k,
                             ModelInput(last_time + 10 * k, input_features)),
                     bias_offset), R(0))

(***************************************************************************)
(* C2 as claimed: with current_aqi_real >= 0 the first forecast value      *)
(* equals current_aqi_real.                                                *)
(***************************************************************************)
C2_Original ==
    (message = "Forecast" /\ RLeq(R(0), current_aqi_real))
        => shown[1].ForecastAQI = current_aqi_real

(***************************************************************************)
(* C2 amended: with current_aqi_real >= 0 the first forecast value is      *)
(* current_aqi_real rounded to one decimal: a multiple of 0.1 at most 0.05 *)
(* away from it, and equal to it when it has at most one decimal.          *)
(***************************************************************************)
C2_Anchored ==
    (message = "Forecast" /\ RLeq(R(0), current_aqi_real))
        => LET f == shown[1].ForecastAQI
               e == RSub(f, current_aqi_real)
           IN  /\ IsTenth(f)
               /\ RLeq(Norm(0 - 1, 20), e) /\ RLeq(e, Norm(1, 20))
               /\ IsTenth(current_aqi_real) => f = current_aqi_real

\* a forecast anchored with a non-zero offset on a value with more than
\* one decimal
C2_Witness ==
    /\ message = "Forecast"
    /\ RLess(R(0), current_aqi_real)
    /\ ~IsTenth(current_aqi_real)
    /\ bias_offset # R(0)

(***************************************************************************)
(* C3 as claimed: when the valid readings span more than 2 hours, no grid  *)
(* point is older than max_timestamp - 2h.                                 *)
(***************************************************************************)
C3_Original ==
    (Resampled /\ Valid # <<>> /\ MaxT(Valid)[1] - MinT(Valid)[1] > GapMinutes)
        => \A i \in 1..Len(df_10min) :
              df_10min[i].t >= MaxT(Valid)[1] - GapMinutes

(***************************************************************************)
(* C3 amended: when the valid readings span more than 2 hours, every       *)
(* reading that enters the grid is newer than max_timestamp - 2h, and      *)
(* every grid point, labelled with the start of its 10-minute bucket, is   *)
(* newer than max_timestamp - 2h - 10min.                                  *)
(***************************************************************************)
C3_GapWindow ==
    (Resampled /\ Valid # <<>> /\ MaxT(Valid)[1] - MinT(Valid)[1] > GapMinutes)
        => /\ \A i \in 1..Len(df) : df[i].t[1] > MaxT(Valid)[1] - GapMinutes
           /\ \A i \in 1..Len(df_10min) :
                 df_10min[i].t > MaxT(Valid)[1] - GapMinutes - Freq

\* a span of more than 2 hours of which the gap filter dropped a reading
C3_Witness ==
    /\ Resampled
    /\ Valid # <<>>
    /\ MaxT(Valid)[1] - MinT(Valid)[1] > GapMinutes
    /\ Len(df) < Len(Valid)
    /\ Len(df_10min) > 1

(***************************************************************************)
(* C4: the grid's timestamps are exactly 10 minutes apart (so strictly     *)
(* increasing and without duplicates); a bucket without readings is        *)
(* present and carries the linearly interpolated value.                    *)
(***************************************************************************)
C4_Grid ==
    Resampled =>
        /\ \A i \in 1..(Len(df_10min) - 1) :
              df_10min[i + 1].t = df_10min[i].t + Freq
        /\ \A i \in 1..Len(df_10min) :
              /\ ~IsNA(df_10min[i].aqi)
              /\ IsNA(BucketMean(df, df_10min[i].t)) =>
                    /\ 1 < i /\ i < Len(df_10min)
                    /\ RSub(Val(df_10min, i), Val(df_10min, i - 1))
                         = RSub(Val(df_10min, i + 1), Val(df_10min, i))
        /\ \A i \in 1..Len(df) :
              \E j \in 1..Len(df_10min) : df_10min[j].t = Bucket(df[i].t[1])

\* a grid one of whose buckets had no reading
C4_Witness ==
    /\ Resampled
    /\ \E i \in 1..Len(df_10min) : IsNA(BucketMean(df, df_10min[i].t))

(***************************************************************************)
(* C5: a grid of n < 4 points gives ColdStart with a wait of (4 - n) * 10  *)
(* minutes and no forecast; a grid of n >= 4 points never gives ColdStart. *)
(***************************************************************************)
C5_ColdStart ==
    (pc = "done" /\ rows # <<>>) =>
        IF Len(df_10min) < 4
        THEN /\ message = "ColdStart"
             /\ wait = (4 - Len(df_10min)) * 10
             /\ shown = <<>>
             /\ preds = <<>>
        ELSE message # "ColdStart"

\* exactly 3 grid points: wait 10 minutes
C5_Witness ==
    /\ pc = "done"
    /\ Len(df_10min) = 3
    /\ message = "ColdStart"
    /\ wait = 10

(***************************************************************************)
(* C6: a run shows no forecast point at all or exactly six points in step  *)
(* order, point k for last_time + 10 * k minutes; when the artifact does   *)
(* not load, or a horizon's model is missing or fails, nothing is shown.   *)
(***************************************************************************)
C6_AllOrNothing ==
    /\ \/ shown = <<>>
       \/ /\ Len(shown) = 6
          /\ \A k \in 1..6 :
                shown[k].Time.H * 60 + shown[k].Time.M
                    = (last_time + 10 * k) % 1440
    /\ (raised # "none" \/ message = "ModelUnavailable") => shown = <<>>

\* the loop stopped at a missing or failing horizon after computing some
\* points
C6_Witness ==
    /\ pc = "done"
    /\ raised # "none"
    /\ Len(preds) \in 1..5

(***************************************************************************)
(* C7: every failure inside the pipeline ends in a failure message of a    *)
(* specific kind and no exception leaves show_future; a missing or corrupt *)
(* artifact ends in ModelUnavailable.                                      *)
(***************************************************************************)
C7_NoUncaught ==
    pc = "done" =>
        /\ raised = "none"
        /\ message # "none"
        /\ artifact \in {"missing", "corrupt"} => message = "ModelUnavailable"

(***************************************************************************)
(* C8: when the store returns no rows, or only rows that fail coercion of  *)
(* the timestamp or the aqi, the run ends in DataUnavailable: no ColdStart *)
(* wait estimate, no forecast, no error.                                   *)
(***************************************************************************)
C8_DataUnavailable ==
    (pc = "done" /\ model_suite # "none"
                 /\ DropNa(Coerce(Reverse(store))) = <<>>)
        => /\ message = "DataUnavailable"
           /\ shown = <<>>
           /\ raised = "none"

(***************************************************************************)
(* C9: when the newest reading is of 09:00 and the run happens at 14:00,   *)
(* the run ends in DataUnavailable or ColdStart and shows no forecast,     *)
(* whatever readings precede 09:00.                                        *)
(***************************************************************************)
C9_StaleSensor ==
    (pc = "done" /\ now = Utc(840) /\ rows # <<>> /\ raised = "none"
                 /\ MaxT(Valid) = <<540>>)
        => /\ message \in {"DataUnavailable", "ColdStart"}
           /\ shown = <<>>

(***************************************************************************)
(* The readings of the two-point scenario, as the store returns them.      *)
(***************************************************************************)
TwoPointRows ==
    << Row(Iso(Utc(615)), Num(52)),
       Row(Iso(Utc(610)), Num(50)),
       Row(Iso(Utc(605)), Num(44)),
       Row(Iso(Utc(600)), Num(40)) >>

TwoPointGrid ==
    << [t |-> 600, aqi |-> <<R(42)>>], [t |-> 610, aqi |-> <<R(51)>>] >>

Shallower(k) == CASE k = 2 -> 1 [] k = 3 -> 2 [] k = 6 -> 3

LagOf(f, k) ==
    CASE k = 1 -> f.aqi_lag_1
      [] k = 2 -> f.aqi_lag_2
      [] k = 3 -> f.aqi_lag_3
      [] k = 6 -> f.aqi_lag_6

RECURSIVE SumField(_, _)
SumField(ss, field) ==
    IF ss = <<>> THEN 0
    ELSE (IF field = "aqi" THEN Head(ss).aqi ELSE Head(ss).mq135)
           + SumField(Tail(ss), field)

C12_Step ==
    /\ sample_count = Len(hour_samples)
    /\ sample_count' = Len(hour_samples')
    /\ sum_aqi' = SumField(hour_samples', "aqi")
    /\ sum_mq135' = SumField(hour_samples', "mq135")
    /\ (fpc = "hourly" /\ fpc' # "hourly") =>
          IF clock - last_hourly_upload >= 3600
          THEN /\ sum_mq135' = 0
               /\ sum_temp' = R(0)
               /\ sum_hum' = R(0)
               /\ sum_aqi' = 0
               /\ sample_count' = 0
               /\ last_hourly_upload' > last_hourly_upload
          ELSE UNCHANGED <<sum_mq135, sum_temp, sum_hum, sum_aqi,
                           sample_count, last_hourly_upload>>

C12_Accumulator == [][C12_Step]_vars

\* the hour has elapsed, the history POST raised, and the hour's samples
\* are gone without a history row
C12_Witness ==
    /\ fpc = "sleep"
    /\ hist_status = "raised"
    /\ history = <<>>
    /\ sample_count = 0
    /\ sum_aqi = 0
    /\ last_hourly_upload >= 3600

====
